---- MODULE Spec2Model ----
(***************************************************************************)
(* Merge-conflict extraction and resolution of the mergeai repository.     *)
(*                                                                         *)
(* A text is a sequence of characters.  Each conflict marker (seven equal  *)
(* characters) is one symbol of the alphabet; "\n" is the line terminator. *)
(* Four programs are modelled over the same editor document:               *)
(*   - src/src/extension.ts     (line scanner, resolveWith* edits)         *)
(*   - src/src/mergeHandler.ts  (regex parser, three-panel webview)        *)
(*   - src/unnamed/part_006     (regex parser, flat webview, free commit)  *)
(*   - src/unnamed/part_004     (substring scanner of mergeai.helloWorld)  *)
(***************************************************************************)
EXTENDS Integers, Sequences, FiniteSets, TLC

VARIABLES
    document,     \* text of the editor's document
    opened,       \* text of the document when the panel was opened
    phase,        \* "closed" | "open" | "none" (no panel: no conflict found)
    conflicts,    \* conflict list held by the webview script
    fileContent,  \* mergeHandler/part_006 webview: fileContent
    panel,        \* mergeHandler/part_006 webview: children of the resolved panel
    accepted,     \* per conflict: source of the resolution applied since its last clear, or "none"
    posted,       \* messages posted by the webview, not yet handled by the extension
    inbox,        \* messages posted by the extension, not yet handled by the webview
    ai,           \* the extension's aiResolve loops that await callAI
    currentConflict, \* webview: index of the selected conflict
    edits,        \* number of edits applied to the document so far
    last          \* the message the extension handled last, with the document before it

vars == <<document, opened, phase, conflicts, fileContent, panel, accepted,
          posted, inbox, ai, currentConflict, edits, last>>

----------------------------------------------------------------------------
(* Bounds *)

MaxBlocks == 3
MaxEdits == 3
MaxInFlight == 1
MaxPosted == 1
MaxAiLoops == 1
MaxMerged == 3
MaxClicks == 2
MaxIcons == 8

----------------------------------------------------------------------------
(* Alphabet *)

NL  == "\n"
LT  == "<<<<<<<"
BAR == "|||||||"
EQ  == "======="
GT  == ">>>>>>>"
SP  == " "

Letters == <<"a", "b", "c", "d", "e", "f", "g", "h", "i", "j", "k", "l", "m",
             "n", "o", "p", "q", "r", "s", "t", "u", "v", "w", "x", "y", "z">>

Min(a, b) == IF a < b THEN a ELSE b
Max(a, b) == IF a > b THEN a ELSE b

----------------------------------------------------------------------------
(* JavaScript string and array primitives *)

\* String.prototype.substring(a, b), 0-based, end exclusive
substring(text, a, b) ==
    LET lo == Max(0, Min(a, Len(text)))
        hi == Max(0, Min(b, Len(text)))
    IN  SubSeq(text, Min(lo, hi) + 1, Max(lo, hi))

\* position (0-based) of the first "\n" at or after from, Len(text) when none
RECURSIVE indexOfNL(_, _)
indexOfNL(text, from) ==
    IF from >= Len(text) THEN Len(text)
    ELSE IF text[from + 1] = NL THEN from
    ELSE indexOfNL(text, from + 1)

\* String.prototype.split('\n'): "" gives one empty line
RECURSIVE split(_)
split(text) ==
    LET k == indexOfNL(text, 0)
    IN  IF k = Len(text) THEN <<text>>
        ELSE <<SubSeq(text, 1, k)>> \o split(SubSeq(text, k + 2, Len(text)))

\* Array.prototype.join('\n')
RECURSIVE join(_)
join(lines) ==
    IF Len(lines) = 0 THEN <<>>
    ELSE IF Len(lines) = 1 THEN lines[1]
    ELSE lines[1] \o <<NL>> \o join(Tail(lines))

\* Array.prototype.slice(a, b): negative arguments count from the end
slice(lines, a, b) ==
    LET n  == Len(lines)
        lo == IF a < 0 THEN Max(n + a, 0) ELSE Min(a, n)
        hi == IF b < 0 THEN Max(n + b, 0) ELSE Min(b, n)
    IN  IF hi <= lo THEN <<>> ELSE SubSeq(lines, lo + 1, hi)

\* String.prototype.startsWith for a marker
startsWith(line, marker) == Len(line) > 0 /\ line[1] = marker

\* String.prototype.trim() leaves nothing
isBlank(line) == \A k \in 1..Len(line) : line[k] = SP

----------------------------------------------------------------------------
(* Documents the editor may hold when the command is run *)

\* a block is a run of line kinds: c content, z empty line, s start marker,
\* b base marker, m separator, e end marker; q, r, t are content lines with
\* the text of a start marker, a separator, an end marker in mid-line
Blocks == { <<"c">>, <<"z">>, <<"s">>, <<"b">>, <<"m">>, <<"e">>,
            <<"s", "c", "m", "c", "e">>,
            <<"s", "c", "b", "c", "m", "c", "e">> }

RECURSIVE flatten(_)
flatten(ss) == IF Len(ss) = 0 THEN <<>> ELSE ss[1] \o flatten(Tail(ss))

\* the line of kind k at 0-based line i; content lines are pairwise distinct
lineOf(k, i) ==
    CASE k = "c" -> <<Letters[(i % 26) + 1]>>
      [] k = "z" -> <<>>
      [] k = "s" -> <<LT, SP, "HEAD">>
      [] k = "b" -> <<BAR, SP, "base">>
      [] k = "m" -> <<EQ>>
      [] k = "e" -> <<GT, SP, "branch">>
      [] k = "q" -> <<Letters[(i % 26) + 1], SP, LT, SP, "HEAD">>
      [] k = "r" -> <<Letters[(i % 26) + 1], SP, EQ>>
      [] k = "t" -> <<Letters[(i % 26) + 1], SP, GT, SP, "branch">>

textOf(kinds) == join([i \in 1..Len(kinds) |-> lineOf(kinds[i], i - 1)])

Documents ==
    { textOf(flatten(bs)) : bs \in UNION { [1..n -> Blocks] : n \in 0..MaxBlocks } }

----------------------------------------------------------------------------
(* src/src/extension.ts: the line scanner *)

hasMergeConflicts(text) ==
    /\ \E k \in 1..Len(text) : text[k] = LT
    /\ \E k \in 1..Len(text) : text[k] = EQ
    /\ \E k \in 1..Len(text) : text[k] = GT

\* the five scan variables, all -1 before the loop and after each push
noMarkers ==
    [startIndex |-> -1, separatorIndex |-> -1, endIndex |-> -1,
     commonAncestorStart |-> -1, commonAncestorEnd |-> -1]

\* mutant: conflicts numbered from 1
nextIndexOneBased(found) == Len(found) + 1

\* index: conflicts.length
nextIndex(found) == Len(found)

\* the object pushed when the end marker is met at line i
conflictAt(lines, st, i, index) ==
    [index    |-> index,
     current  |-> join(slice(lines, st.startIndex + 1,
                             IF st.commonAncestorStart # -1
                             THEN st.commonAncestorStart ELSE st.separatorIndex)),
     original |-> IF st.commonAncestorStart # -1
                  THEN join(slice(lines, st.commonAncestorStart + 1, st.commonAncestorEnd))
                  ELSE <<>>,
     incoming |-> join(slice(lines, st.separatorIndex + 1, i)),
     contextBefore |-> join(slice(lines, Max(0, st.startIndex - 3), st.startIndex)),
     contextAfter  |-> join(slice(lines, i + 1, Min(Len(lines), i + 4))),
     startLine |-> st.startIndex,
     endLine   |-> i,
     currentMarker  |-> IF st.startIndex >= 0 THEN lines[st.startIndex + 1] ELSE <<"undefined">>,
     incomingMarker |-> lines[i + 1],
     hasCommonAncestor |-> st.commonAncestorStart # -1]

\* the scan variables after a line that does not close a conflict
markLine(line, st, i) ==
    IF startsWith(line, LT) THEN [st EXCEPT !.startIndex = i]
    ELSE IF startsWith(line, BAR) THEN [st EXCEPT !.commonAncestorStart = i]
    ELSE IF startsWith(line, EQ) /\ st.startIndex # -1
    THEN [st EXCEPT !.separatorIndex = i,
                    !.commonAncestorEnd =
                        IF st.commonAncestorStart # -1 THEN i ELSE @]
    ELSE st

\* the line closes a conflict: fourth branch of the if chain
closesConflict(line, st) ==
    /\ ~startsWith(line, LT)
    /\ ~startsWith(line, BAR)
    /\ ~(startsWith(line, EQ) /\ st.startIndex # -1)
    /\ startsWith(line, GT)
    /\ st.separatorIndex # -1

RECURSIVE scanLines(_, _, _, _)
scanLines(lines, i, st, found) ==
    IF i >= Len(lines) THEN found
    ELSE IF closesConflict(lines[i + 1], st)
    THEN scanLines(lines, i + 1, noMarkers,
                   Append(found, conflictAt(lines, st, i, nextIndex(found))))
    ELSE scanLines(lines, i + 1, markLine(lines[i + 1], st, i), found)

extractMergeConflicts(text) == scanLines(split(text), 0, noMarkers, <<>>)

----------------------------------------------------------------------------
(* src/src/extension.ts: the edits applied to the document *)

RECURSIVE lineOffset(_, _)
lineOffset(lines, line) ==
    IF line = 0 THEN 0
    ELSE Len(lines[1]) + 1 + lineOffset(Tail(lines), line - 1)

\* document.offsetAt(new vscode.Position(line, 0)); a position past the last
\* line is adjusted to the end of the document
offsetAtLine(text, line) ==
    LET lines == split(text)
    IN  IF line >= Len(lines) THEN Len(text) ELSE lineOffset(lines, line)

\* editBuilder.replace(new vscode.Range(a, b), replacement)
replaceRange(text, a, b, replacement) ==
    substring(text, 0, a) \o replacement \o substring(text, b, Len(text))

\* the edit every resolveWith* function issues
resolveEdit(text, conflict, replacement) ==
    replaceRange(text, offsetAtLine(text, conflict.startLine),
                 offsetAtLine(text, conflict.endLine + 1), replacement)

\* mutant: the original text is used whether or not the conflict has a base
originalChoiceNoFallback(conflict) == conflict.original

\* replacement chosen by resolveWithOriginal
originalChoice(conflict) ==
    IF conflict.hasCommonAncestor THEN conflict.original ELSE conflict.current

\* texts the acceptCustom message may carry
CustomTexts == { <<"u">>, <<"u", NL, "v">> }

noOp == [op |-> "init", index |-> -1, before |-> <<>>, text |-> <<>>]

\* a message between the webview and the extension: command and payload,
\* with the state of the resolutions when it was posted
message(command) ==
    [command |-> command, text |-> <<>>, index |-> -1, conflicts |-> <<>>,
     error |-> FALSE, unresolved |-> 0, choice |-> "none", accepted |-> <<>>]

\* no panel yet
closedPanel ==
    /\ opened = <<>>
    /\ phase = "closed"
    /\ conflicts = <<>>
    /\ fileContent = <<>>
    /\ panel = <<>>
    /\ accepted = <<>>
    /\ posted = <<>>
    /\ inbox = <<>>
    /\ ai = <<>>
    /\ currentConflict = 0
    /\ edits = 0
    /\ last = noOp

Init == document \in Documents /\ closedPanel

\* showImprovedMergeUI: the command is run on the active editor
showImprovedMergeUI ==
    /\ phase = "closed"
    /\ IF hasMergeConflicts(document)
       THEN /\ phase' = "open"
            /\ conflicts' = extractMergeConflicts(document)
            /\ opened' = document
       ELSE /\ phase' = "none"
            /\ UNCHANGED <<conflicts, opened>>
    /\ last' = [noOp EXCEPT !.op = "showMergeUI", !.before = document]
    /\ UNCHANGED <<document, fileContent, panel, accepted, posted, inbox, ai,
                   currentConflict, edits>>

\* webview: conflict-select change, prev-conflict, next-conflict
selectConflict(k) ==
    /\ phase = "open"
    /\ k \in 0..(Len(conflicts) - 1)
    /\ k # currentConflict
    /\ currentConflict' = k
    /\ last' = [noOp EXCEPT !.op = "select", !.index = k, !.before = document]
    /\ UNCHANGED <<document, opened, phase, conflicts, fileContent, panel,
                   accepted, posted, inbox, ai, edits>>

\* the text each resolveWith* function passes to editBuilder.replace
replacementOf(op, conflict, customText) ==
    CASE op = "acceptOriginal" -> originalChoice(conflict)
      [] op = "acceptCurrent"  -> conflict.current
      [] op = "acceptIncoming" -> conflict.incoming
      [] op = "acceptCustom"   -> customText

\* mutant: an index past the end of the list falls back to the last conflict
resolveWithClamped(op, conflictIndex, customText) ==
    LET found == extractMergeConflicts(document)
        index == Min(conflictIndex, Len(found) - 1)
    IN  /\ edits < MaxEdits
        /\ edits' = edits + 1
        /\ document' =
              IF Len(found) = 0 THEN document
              ELSE resolveEdit(document, found[index + 1],
                               replacementOf(op, found[index + 1], customText))
        /\ last' = [noOp EXCEPT !.op = op, !.index = conflictIndex,
                                !.before = document, !.text = customText]
        /\ UNCHANGED <<opened, phase, conflicts, fileContent, panel, accepted,
                       posted, inbox, ai, currentConflict>>

\* the body shared by the four resolveWith* functions
resolveWith(op, conflictIndex, customText) ==
    LET found == extractMergeConflicts(document)
    IN  /\ edits < MaxEdits
        /\ edits' = edits + 1
        /\ document' =
              IF conflictIndex >= Len(found) THEN document
              ELSE resolveEdit(document, found[conflictIndex + 1],
                               replacementOf(op, found[conflictIndex + 1],
                                             customText))
        /\ last' = [noOp EXCEPT !.op = op, !.index = conflictIndex,
                                !.before = document, !.text = customText]
        /\ UNCHANGED <<opened, phase, conflicts, fileContent, panel, accepted,
                       posted, inbox, ai, currentConflict>>

\* the webview's buttons exist only when conflicts were found (initialize)
canClick == phase = "open" /\ Len(conflicts) > 0

resolveWithOriginal ==
    canClick /\ resolveWith("acceptOriginal", currentConflict, <<>>)

resolveWithCurrent ==
    canClick /\ resolveWith("acceptCurrent", currentConflict, <<>>)

resolveWithIncoming ==
    canClick /\ resolveWith("acceptIncoming", currentConflict, <<>>)

resolveWithCustom(customText) ==
    canClick /\ resolveWith("acceptCustom", currentConflict, customText)

NextExt ==
    \/ showImprovedMergeUI
    \/ \E k \in 0..(2 * MaxBlocks) : selectConflict(k)
    \/ resolveWithOriginal
    \/ resolveWithCurrent
    \/ resolveWithIncoming
    \/ \E t \in CustomTexts : resolveWithCustom(t)

SpecExt == Init /\ [][NextExt]_vars

----------------------------------------------------------------------------
(* Reference notions for the claims about extension.ts *)

isStart(line)     == startsWith(line, LT)
isBase(line)      == startsWith(line, BAR)
isSeparator(line) == startsWith(line, EQ)
isEnd(line)       == startsWith(line, GT)
isMarker(line)    == isStart(line) \/ isBase(line) \/ isSeparator(line) \/ isEnd(line)

\* number of conflicts of a document made only of well-formed, non-nested
\* conflicts and non-marker lines; -1 for any other document
RECURSIVE wellFormedCount(_, _, _, _)
wellFormedCount(lines, i, mode, n) ==
    IF i > Len(lines) THEN (IF mode = "outside" THEN n ELSE -1)
    ELSE LET line == lines[i] IN
         CASE mode = "outside" ->
                IF isStart(line) THEN wellFormedCount(lines, i + 1, "local", n)
                ELSE IF isMarker(line) THEN -1
                ELSE wellFormedCount(lines, i + 1, mode, n)
           [] mode = "local" ->
                IF isBase(line) THEN wellFormedCount(lines, i + 1, "base", n)
                ELSE IF isSeparator(line) THEN wellFormedCount(lines, i + 1, "incoming", n)
                ELSE IF isMarker(line) THEN -1
                ELSE wellFormedCount(lines, i + 1, mode, n)
           [] mode = "base" ->
                IF isSeparator(line) THEN wellFormedCount(lines, i + 1, "incoming", n)
                ELSE IF isMarker(line) THEN -1
                ELSE wellFormedCount(lines, i + 1, mode, n)
           [] mode = "incoming" ->
                IF isEnd(line) THEN wellFormedCount(lines, i + 1, "outside", n + 1)
                ELSE IF isMarker(line) THEN -1
                ELSE wellFormedCount(lines, i + 1, mode, n)

conflictCount(text) == wellFormedCount(split(text), 1, "outside", 0)

\* 0-based index of the first line in lo..hi-1 starting with marker, -1 when none
firstLine(lines, lo, hi, marker) ==
    LET hits == { k \in lo..(hi - 1) :
                    k < Len(lines) /\ startsWith(lines[k + 1], marker) }
    IN  IF hits = {} THEN -1 ELSE CHOOSE k \in hits : \A j \in hits : k <= j

\* the separator of the block startLine..endLine, and its base marker
separatorOf(lines, r) == firstLine(lines, r.startLine + 1, r.endLine, EQ)
baseOf(lines, r) ==
    firstLine(lines, r.startLine + 1, separatorOf(lines, r), BAR)

----------------------------------------------------------------------------
(* C1: for every document made of N well-formed, non-nested conflicts,     *)
(* extractMergeConflicts returns exactly N regions, the k-th with index k, *)
(* with strictly ascending startLine and endLine > startLine in each.      *)
C1_WellFormedRegions ==
    LET n     == conflictCount(document)
        found == extractMergeConflicts(document)
    IN  n >= 0 =>
          /\ Len(found) = n
          /\ \A k \in 1..Len(found) :
                /\ found[k].index = k - 1
                /\ found[k].endLine > found[k].startLine
          /\ \A k \in 1..(Len(found) - 1) :
                found[k].startLine < found[k + 1].startLine

\* the panel was opened on a document of two well-formed conflicts
C1_Witness ==
    /\ phase = "open"
    /\ document = opened
    /\ conflictCount(document) = 2
    /\ Len(conflicts) = 2
    /\ conflicts[2].index = 1

----------------------------------------------------------------------------
(* C2: resolveWithCurrent / Incoming / Original (with a base) / Custom on  *)
(* conflict i replace the block, start marker line through end marker      *)
(* line, by exactly the chosen text; every line before and after the block *)
(* is unchanged and still a separate line.                                 *)
chosenText(r) ==
    CASE last.op = "acceptCurrent"  -> r.current
      [] last.op = "acceptIncoming" -> r.incoming
      [] last.op = "acceptOriginal" -> r.original
      [] last.op = "acceptCustom"   -> last.text

C2_BlockReplacedByChoice ==
    LET found == extractMergeConflicts(last.before)
        lines == split(last.before)
    IN  /\ last.op \in {"acceptCurrent", "acceptIncoming", "acceptOriginal",
                        "acceptCustom"}
        /\ last.index < Len(found)
        /\ last.op = "acceptOriginal" => found[last.index + 1].hasCommonAncestor
        => LET r == found[last.index + 1]
           IN  split(document) =
                   slice(lines, 0, r.startLine)
                   \o split(chosenText(r))
                   \o slice(lines, r.endLine + 1, Len(lines))

----------------------------------------------------------------------------
(* C4: for every region returned on any text, current is exactly the lines *)
(* strictly between the start marker and the base marker (the separator    *)
(* without a base), original the lines strictly between base marker and    *)
(* separator, incoming the lines strictly between separator and end marker.*)
C4_FieldsBetweenMarkers ==
    LET lines == split(document)
        found == extractMergeConflicts(document)
    IN  \A k \in 1..Len(found) :
          LET r    == found[k]
              sep  == separatorOf(lines, r)
              base == baseOf(lines, r)
          IN  /\ sep # -1
              /\ r.current = join(slice(lines, r.startLine + 1,
                                        IF base # -1 THEN base ELSE sep))
              /\ r.original = (IF base # -1
                               THEN join(slice(lines, base + 1, sep)) ELSE <<>>)
              /\ r.incoming = join(slice(lines, sep + 1, r.endLine))

----------------------------------------------------------------------------
(* C5: for every region returned on any text, hasCommonAncestor is true    *)
(* iff a base marker line lies between the region's own start marker line  *)
(* and its own separator line.                                             *)
C5_BaseFlagOwnMarker ==
    LET lines == split(document)
        found == extractMergeConflicts(document)
    IN  \A k \in 1..Len(found) :
          found[k].hasCommonAncestor <=> baseOf(lines, found[k]) # -1

----------------------------------------------------------------------------
(* C6: requesting the original resolution for a conflict without a base    *)
(* section fails and leaves the document unchanged.                        *)
originalWithoutBase ==
    /\ last.op = "acceptOriginal"
    /\ last.index < Len(extractMergeConflicts(last.before))
    /\ ~extractMergeConflicts(last.before)[last.index + 1].hasCommonAncestor

----------------------------------------------------------------------------
(* C10: a start marker with no matching separator/end before the next      *)
(* start marker or the end of the document yields no region and one        *)
(* unterminated-conflict issue referencing that start line.                *)

\* what extractMergeConflicts hands to its caller: the conflicts array only
scanResult(text) ==
    [regions |-> extractMergeConflicts(text), unterminated |-> <<>>]

\* 0-based start marker lines not followed, before the next start marker,
\* by a separator line and then an end marker line
unterminatedStarts(lines) ==
    { k \in 0..(Len(lines) - 1) :
        /\ isStart(lines[k + 1])
        /\ LET next == firstLine(lines, k + 1, Len(lines), LT)
               stop == IF next = -1 THEN Len(lines) ELSE next
               sep  == firstLine(lines, k + 1, stop, EQ)
           IN  \/ sep = -1
               \/ firstLine(lines, sep + 1, stop, GT) = -1 }

C10_UnterminatedReported ==
    LET lines  == split(document)
        result == scanResult(document)
    IN  \A k \in unterminatedStarts(lines) :
          /\ \A j \in 1..Len(result.regions) : result.regions[j].startLine # k
          /\ Cardinality({ j \in 1..Len(result.unterminated) :
                             result.unterminated[j] = k }) = 1

----------------------------------------------------------------------------
(* src/src/mergeHandler.ts: the regex parser *)

\* "\n=======\n" at 0-based position q
separatorAt(text, q) ==
    /\ q + 3 <= Len(text)
    /\ text[q + 1] = NL /\ text[q + 2] = EQ /\ text[q + 3] = NL

\* "\n>>>>>>> " at 0-based position r
footerAt(text, r) ==
    /\ r + 3 <= Len(text)
    /\ text[r + 1] = NL /\ text[r + 2] = GT /\ text[r + 3] = SP

minOf(S) == CHOOSE k \in S : \A j \in S : k <= j

\* positions at which the lazy group ([\s\S]*?) before "\n=======\n" may end
\* when the match starts at p: a footer must still follow
separatorsFor(text, p) ==
    LET h == indexOfNL(text, p + 2)
    IN  { q \in (h + 1)..Len(text) :
            /\ separatorAt(text, q)
            /\ \E r \in (q + 3)..Len(text) : footerAt(text, r) }

\* the regex matches at 0-based position p
matchesAt(text, p) ==
    /\ p + 2 <= Len(text)
    /\ text[p + 1] = LT /\ text[p + 2] = SP
    /\ indexOfNL(text, p + 2) < Len(text)
    /\ separatorsFor(text, p) # {}

maxOf(S) == CHOOSE k \in S : \A j \in S : k >= j

\* mutant: the group before the end marker is greedy, ([\s\S]*)
matchAtGreedy(text, p) ==
    LET h == indexOfNL(text, p + 2)
        q == minOf(separatorsFor(text, p))
        r == maxOf({ k \in (q + 3)..Len(text) : footerAt(text, k) })
        f == indexOfNL(text, r + 3)
    IN  [start  |-> p,
         end    |-> IF f < Len(text) THEN f + 1 ELSE Len(text),
         header |-> substring(text, p + 2, h),
         local  |-> substring(text, h + 1, q),
         remote |-> substring(text, q + 3, r),
         footer |-> substring(text, r + 3, f)]

\* the match object at p: match.index, match[0].length and the four groups
matchAt(text, p) ==
    LET h == indexOfNL(text, p + 2)
        q == minOf(separatorsFor(text, p))
        r == minOf({ k \in (q + 3)..Len(text) : footerAt(text, k) })
        f == indexOfNL(text, r + 3)
    IN  [start  |-> p,
         end    |-> IF f < Len(text) THEN f + 1 ELSE Len(text),
         header |-> substring(text, p + 2, h),
         local  |-> substring(text, h + 1, q),
         remote |-> substring(text, q + 3, r),
         footer |-> substring(text, r + 3, f)]

\* while ((match = regex.exec(text)) !== null), regex.lastIndex = from
RECURSIVE execFrom(_, _)
execFrom(text, from) ==
    LET starts == { p \in from..Len(text) : matchesAt(text, p) }
    IN  IF starts = {} THEN <<>>
        ELSE LET m == matchAt(text, minOf(starts))
             IN  <<m>> \o execFrom(text, m.end)

parseMergeConflicts(text) == execFrom(text, 0)

----------------------------------------------------------------------------
(* src/src/mergeHandler.ts: the webview script *)

\* children of the resolved panel's code container
codeLine(line) ==
    [kind |-> "code-line", index |-> -1, text |-> line, lines |-> <<>>]

conflictSection(index, lines) ==
    [kind |-> "conflict-section", index |-> index, text |-> <<>>, lines |-> lines]

codeLines(text) ==
    IF text = <<>> THEN <<>>
    ELSE [k \in 1..Len(split(text)) |-> codeLine(split(text)[k])]

maxLines(conflict) ==
    Max(Len(split(conflict.local)), Len(split(conflict.remote)))

emptyLines(n) == [k \in 1..n |-> <<>>]

\* conflicts.forEach of renderContent from conflict k (1-based) on, then the
\* remaining non-conflict code
RECURSIVE renderFrom(_, _, _, _)
renderFrom(content, cs, k, lastPos) ==
    IF k > Len(cs) THEN codeLines(substring(content, lastPos, Len(content)))
    ELSE codeLines(substring(content, lastPos, cs[k].start))
         \o <<conflictSection(k - 1, emptyLines(maxLines(cs[k])))>>
         \o renderFrom(content, cs, k + 1, cs[k].end)

renderContent(content, cs) == renderFrom(content, cs, 1, 0)

\* mutant: the previous resolved lines of the section are not removed
withSectionAppended(nodes, index, lines) ==
    [k \in 1..Len(nodes) |->
        IF nodes[k].kind = "conflict-section" /\ nodes[k].index = index
        THEN conflictSection(index, nodes[k].lines \o lines) ELSE nodes[k]]

\* the panel with the resolved lines of section index replaced
withSection(nodes, index, lines) ==
    [k \in 1..Len(nodes) |->
        IF nodes[k].kind = "conflict-section" /\ nodes[k].index = index
        THEN conflictSection(index, lines) ELSE nodes[k]]

hasSection(nodes, index) ==
    \E k \in 1..Len(nodes) :
        nodes[k].kind = "conflict-section" /\ nodes[k].index = index

\* mutant: a section counts as unresolved only when it has no resolved line
unresolvedSectionsByCount(nodes) ==
    { k \in 1..Len(nodes) :
        nodes[k].kind = "conflict-section" /\ Len(nodes[k].lines) = 0 }

\* commit: the sections whose resolved lines are all blank after trim()
unresolvedSections(nodes) ==
    { k \in 1..Len(nodes) :
        /\ nodes[k].kind = "conflict-section"
        /\ \A j \in 1..Len(nodes[k].lines) : isBlank(nodes[k].lines[j]) }

\* commit: allLines collected from the resolved panel
RECURSIVE allLines(_)
allLines(nodes) ==
    IF Len(nodes) = 0 THEN <<>>
    ELSE (IF nodes[1].kind = "conflict-section" THEN nodes[1].lines
          ELSE <<nodes[1].text>>) \o allLines(Tail(nodes))

\* resolutions callAI may return (trimmed, never empty)
AiTexts == { <<"ai1", NL, "ai2">> }

\* documents on which the merge panel is exercised, as runs of line kinds
ShapesMH ==
    { <<"c">>,
      <<"s", "c", "m", "c">>,
      <<"s", "c", "m", "c", "e">>,
      <<"s", "c", "m", "c", "e", "z">>,
      <<"c", "s", "c", "m", "c", "e", "c">>,
      <<"c", "s", "z", "m", "c", "e", "c">>,
      <<"s", "s", "c", "m", "c", "e">>,
      <<"s", "c", "m", "c", "e", "s", "c", "m", "c", "e">>,
      <<"c", "s", "c", "c", "m", "c", "e", "c", "s", "c", "m", "z", "e", "z">> }

DocumentsPanel == { textOf(kinds) : kinds \in ShapesMH }

InitMH == document \in DocumentsPanel /\ closedPanel

\* handleMergeConflict: the command is run on the active editor
handleMergeConflict ==
    /\ phase = "closed"
    /\ LET cs == parseMergeConflicts(document)
       IN  IF Len(cs) = 0
           THEN phase' = "none" /\ UNCHANGED <<opened, inbox>>
           ELSE /\ phase' = "open"
                /\ opened' = document
                /\ inbox' = Append(inbox,
                       [message("setContent") EXCEPT !.text = document,
                                                     !.conflicts = cs])
    /\ UNCHANGED <<document, conflicts, fileContent, panel, accepted, posted,
                   ai, currentConflict, edits, last>>

\* panel.onDidChangeViewState: the panel becomes visible again
onDidChangeViewState ==
    /\ phase = "open"
    /\ Len(inbox) < MaxInFlight
    /\ inbox' = Append(inbox, message("refreshView"))
    /\ UNCHANGED <<document, opened, phase, conflicts, fileContent, panel,
                   accepted, posted, ai, currentConflict, edits, last>>

\* window 'message' listeners of the webview, on the oldest message
webviewMessage ==
    /\ Len(inbox) > 0
    /\ LET m == Head(inbox) IN
       /\ inbox' = Tail(inbox)
       /\ CASE m.command = "setContent" ->
                 /\ conflicts' = m.conflicts
                 /\ fileContent' = m.text
                 /\ panel' = renderContent(m.text, m.conflicts)
                 /\ accepted' = [k \in 1..Len(m.conflicts) |-> "none"]
            [] m.command = "refreshView" ->
                 /\ panel' = IF Len(conflicts) > 0 /\ fileContent # <<>>
                             THEN renderContent(fileContent, conflicts)
                             ELSE panel
                 /\ UNCHANGED <<conflicts, fileContent, accepted>>
            [] m.command = "aiResponse" ->
                 IF ~m.error /\ hasSection(panel, m.index)
                 THEN /\ panel' = withSection(panel, m.index, split(m.text))
                      /\ accepted' = [accepted EXCEPT ![m.index + 1] = "ai"]
                      /\ UNCHANGED <<conflicts, fileContent>>
                 ELSE UNCHANGED <<conflicts, fileContent, panel, accepted>>
    /\ UNCHANGED <<document, opened, phase, posted, ai, currentConflict, edits,
                   last>>

rendered == phase = "open" /\ Len(conflicts) > 0

\* acceptChange(index, source), source "local" or "remote"
acceptChange(index, source) ==
    /\ rendered
    /\ index \in 0..(Len(conflicts) - 1)
    /\ LET conflict == conflicts[index + 1]
           lines == IF source = "local" THEN split(conflict.local)
                    ELSE split(conflict.remote)
       IN  panel' = IF hasSection(panel, index)
                    THEN withSection(panel, index, lines) ELSE panel
    /\ accepted' = [accepted EXCEPT ![index + 1] = source]
    /\ UNCHANGED <<document, opened, phase, conflicts, fileContent, posted,
                   inbox, ai, currentConflict, edits, last>>

\* mutant: the resolved lines of the section are left in place
clearResolvedSectionKeepsLines(index) ==
    /\ rendered
    /\ index \in 0..(Len(conflicts) - 1)
    /\ panel' = panel
    /\ accepted' = [accepted EXCEPT ![index + 1] = "none"]
    /\ UNCHANGED <<document, opened, phase, conflicts, fileContent, posted,
                   inbox, ai, currentConflict, edits, last>>

\* clearResolvedSection(index)
clearResolvedSection(index) ==
    /\ rendered
    /\ index \in 0..(Len(conflicts) - 1)
    /\ panel' = IF hasSection(panel, index)
                THEN withSection(panel, index,
                                 emptyLines(maxLines(conflicts[index + 1])))
                ELSE panel
    /\ accepted' = [accepted EXCEPT ![index + 1] = "none"]
    /\ UNCHANGED <<document, opened, phase, conflicts, fileContent, posted,
                   inbox, ai, currentConflict, edits, last>>

\* number of conflicts without a resolution applied since their last clear
outstanding == Cardinality({ k \in 1..Len(accepted) : accepted[k] = "none" })

\* the source accepted for every conflict, "mixed" when they differ
uniformChoice ==
    IF \A k \in 1..Len(accepted) : accepted[k] = "local" THEN "local"
    ELSE IF \A k \in 1..Len(accepted) : accepted[k] = "remote" THEN "remote"
    ELSE "mixed"

\* applyResolution(editor, resolvedCode): the whole document is replaced
applyResolution(text, resolvedCode) ==
    replaceRange(text, 0, Len(text), resolvedCode)

\* click on the commit button
commitClick ==
    /\ rendered
    /\ Len(posted) < MaxPosted
    /\ posted' = Append(posted,
          IF unresolvedSections(panel) # {}
          THEN [message("showError") EXCEPT !.unresolved = outstanding]
          ELSE [message("commitResolution") EXCEPT
                   !.text = join(allLines(panel)),
                   !.unresolved = outstanding,
                   !.choice = uniformChoice])
    /\ UNCHANGED <<document, opened, phase, conflicts, fileContent, panel,
                   accepted, inbox, ai, currentConflict, edits, last>>

\* click on the ai-submit button with a non-empty prompt
aiSubmitClick ==
    /\ rendered
    /\ Len(posted) < MaxPosted
    /\ Len(ai) + Cardinality({ k \in 1..Len(posted) :
                                 posted[k].command = "aiResolve" }) < MaxAiLoops
    /\ posted' = Append(posted,
          [message("aiResolve") EXCEPT !.index = currentConflict,
                                       !.conflicts = conflicts])
    /\ UNCHANGED <<document, opened, phase, conflicts, fileContent, panel,
                   accepted, inbox, ai, currentConflict, edits, last>>

\* panel.webview.onDidReceiveMessage on the oldest message; for aiResolve up
\* to the first await of callAI
onDidReceiveMessage ==
    /\ Len(posted) > 0
    /\ LET m == Head(posted) IN
       /\ posted' = Tail(posted)
       /\ CASE m.command = "commitResolution" ->
                 /\ document' = applyResolution(document, m.text)
                 /\ UNCHANGED ai
            [] m.command = "showError" ->
                 UNCHANGED <<document, ai>>
            [] m.command = "aiResolve" ->
                 /\ ai' = Append(ai, [i |-> 0, n |-> Len(m.conflicts)])
                 /\ UNCHANGED document
    /\ UNCHANGED <<opened, phase, conflicts, fileContent, panel, accepted,
                   inbox, currentConflict, edits, last>>

\* click on the local, remote or resolved section of conflict index
sectionClick(index) ==
    /\ rendered
    /\ index \in 0..(Len(conflicts) - 1)
    /\ index # currentConflict
    /\ currentConflict' = index
    /\ UNCHANGED <<document, opened, phase, conflicts, fileContent, panel,
                   accepted, posted, inbox, ai, edits, last>>

removeAt(seq, k) == SubSeq(seq, 1, k - 1) \o SubSeq(seq, k + 1, Len(seq))

\* callAI of loop k resolves with resolution: the response is posted and the
\* loop goes on to the next conflict
callAIResolves(k, resolution) ==
    /\ k \in 1..Len(ai)
    /\ Len(inbox) < MaxInFlight
    /\ inbox' = Append(inbox,
          [message("aiResponse") EXCEPT !.text = resolution, !.index = ai[k].i])
    /\ ai' = IF ai[k].i + 1 < ai[k].n
             THEN [ai EXCEPT ![k].i = @ + 1] ELSE removeAt(ai, k)
    /\ UNCHANGED <<document, opened, phase, conflicts, fileContent, panel,
                   accepted, posted, currentConflict, edits, last>>

\* mutant: after the error is posted the loop goes on to the next conflict
callAIThrowsGoesOn(k) ==
    /\ k \in 1..Len(ai)
    /\ Len(inbox) < MaxInFlight
    /\ inbox' = Append(inbox, [message("aiResponse") EXCEPT !.error = TRUE])
    /\ ai' = IF ai[k].i + 1 < ai[k].n
             THEN [ai EXCEPT ![k].i = @ + 1] ELSE removeAt(ai, k)
    /\ UNCHANGED <<document, opened, phase, conflicts, fileContent, panel,
                   accepted, posted, currentConflict, edits, last>>

\* callAI of loop k throws: the catch block posts the error and the loop ends
callAIThrows(k) ==
    /\ k \in 1..Len(ai)
    /\ Len(inbox) < MaxInFlight
    /\ inbox' = Append(inbox, [message("aiResponse") EXCEPT !.error = TRUE])
    /\ ai' = removeAt(ai, k)
    /\ UNCHANGED <<document, opened, phase, conflicts, fileContent, panel,
                   accepted, posted, currentConflict, edits, last>>

NextMH ==
    \/ handleMergeConflict
    \/ onDidChangeViewState
    \/ webviewMessage
    \/ \E k \in 0..1 : \E source \in {"local", "remote"} :
          acceptChange(k, source)
    \/ \E k \in 0..1 : clearResolvedSection(k)
    \/ \E k \in 0..1 : sectionClick(k)
    \/ commitClick
    \/ aiSubmitClick
    \/ onDidReceiveMessage
    \/ \E k \in 1..MaxAiLoops : \E t \in AiTexts : callAIResolves(k, t)
    \/ \E k \in 1..MaxAiLoops : callAIThrows(k)

SpecMH == InitMH /\ [][NextMH]_vars

----------------------------------------------------------------------------
(* src/unnamed/part_006: the panel without sections. The resolved panel is *)
(* a flat list of code lines; the placeholder lines of a conflict carry    *)
(* the class conflict-resolved.                                            *)

resolvedLine(line) ==
    [kind |-> "conflict-resolved", index |-> -1, text |-> line, lines |-> <<>>]

resolvedLines(n) == [k \in 1..n |-> resolvedLine(<<>>)]

RECURSIVE renderFromP6(_, _, _, _)
renderFromP6(content, cs, k, lastPos) ==
    IF k > Len(cs) THEN codeLines(substring(content, lastPos, Len(content)))
    ELSE codeLines(substring(content, lastPos, cs[k].start))
         \o resolvedLines(maxLines(cs[k]))
         \o renderFromP6(content, cs, k + 1, cs[k].end)

renderContentP6(content, cs) == renderFromP6(content, cs, 1, 0)

\* position of node k in querySelectorAll('.conflict-resolved'), 1-based
resolvedRank(nodes, k) ==
    Cardinality({ j \in 1..k : nodes[j].kind = "conflict-resolved" })

\* acceptChange: lines[i] is written into the i-th conflict-resolved line of
\* the panel, whatever conflict it belongs to
withResolvedLines(nodes, lines) ==
    [k \in 1..Len(nodes) |->
        IF /\ nodes[k].kind = "conflict-resolved"
           /\ resolvedRank(nodes, k) <= Len(lines)
        THEN resolvedLine(lines[resolvedRank(nodes, k)]) ELSE nodes[k]]

handleMergeConflictP6 ==
    /\ phase = "closed"
    /\ LET cs == parseMergeConflicts(document)
       IN  IF Len(cs) = 0
           THEN phase' = "none" /\ UNCHANGED <<opened, inbox>>
           ELSE /\ phase' = "open"
                /\ opened' = document
                /\ inbox' = Append(inbox,
                       [message("setContent") EXCEPT !.text = document,
                                                     !.conflicts = cs])
    /\ UNCHANGED <<document, conflicts, fileContent, panel, accepted, posted,
                   ai, currentConflict, edits, last>>

\* window 'message' listener: setContent
webviewMessageP6 ==
    /\ Len(inbox) > 0
    /\ Head(inbox).command = "setContent"
    /\ inbox' = Tail(inbox)
    /\ conflicts' = Head(inbox).conflicts
    /\ fileContent' = Head(inbox).text
    /\ panel' = renderContentP6(Head(inbox).text, Head(inbox).conflicts)
    /\ accepted' = [k \in 1..Len(Head(inbox).conflicts) |-> "none"]
    /\ UNCHANGED <<document, opened, phase, posted, ai, currentConflict, edits,
                   last>>

\* acceptChange(index, source), from an arrow button or from the keyboard
acceptChangeP6(index, source) ==
    /\ rendered
    /\ index \in 0..(Len(conflicts) - 1)
    /\ LET conflict == conflicts[index + 1]
           lines == IF source = "local" THEN split(conflict.local)
                    ELSE split(conflict.remote)
       IN  panel' = withResolvedLines(panel, lines)
    /\ accepted' = [accepted EXCEPT ![index + 1] = source]
    /\ UNCHANGED <<document, opened, phase, conflicts, fileContent, posted,
                   inbox, ai, currentConflict, edits, last>>

Keys == {"ArrowLeft", "ArrowRight", "ArrowDown", " ", "ArrowUp"}

\* document 'keydown' listener
keydown(key) ==
    /\ rendered
    /\ CASE key = "ArrowLeft" ->
              acceptChangeP6(currentConflict, "local")
         [] key = "ArrowRight" ->
              acceptChangeP6(currentConflict, "remote")
         [] key \in {"ArrowDown", " "} ->
              /\ currentConflict' =
                    IF currentConflict < Len(conflicts) - 1
                    THEN currentConflict + 1 ELSE currentConflict
              /\ UNCHANGED <<document, opened, phase, conflicts, fileContent,
                             panel, accepted, posted, inbox, ai, edits, last>>
         [] key = "ArrowUp" ->
              /\ currentConflict' =
                    IF currentConflict > 0
                    THEN currentConflict - 1 ELSE currentConflict
              /\ UNCHANGED <<document, opened, phase, conflicts, fileContent,
                             panel, accepted, posted, inbox, ai, edits, last>>

\* click on the commit button: every .code-line of the resolved panel
commitClickP6 ==
    /\ rendered
    /\ Len(posted) < MaxPosted
    /\ posted' = Append(posted,
          [message("commitResolution") EXCEPT
              !.text = join([k \in 1..Len(panel) |-> panel[k].text]),
              !.unresolved = outstanding,
              !.choice = uniformChoice,
              !.accepted = accepted])
    /\ UNCHANGED <<document, opened, phase, conflicts, fileContent, panel,
                   accepted, inbox, ai, currentConflict, edits, last>>

\* panel.webview.onDidReceiveMessage on the oldest message
onDidReceiveMessageP6 ==
    /\ Len(posted) > 0
    /\ posted' = Tail(posted)
    /\ document' = IF Head(posted).command = "commitResolution"
                   THEN applyResolution(document, Head(posted).text)
                   ELSE document
    /\ UNCHANGED <<opened, phase, conflicts, fileContent, panel, accepted,
                   inbox, ai, currentConflict, edits, last>>

NextP6 ==
    \/ handleMergeConflictP6
    \/ webviewMessageP6
    \/ \E k \in 0..1 : \E source \in {"local", "remote"} :
          acceptChangeP6(k, source)
    \/ \E key \in Keys : keydown(key)
    \/ commitClickP6
    \/ onDidReceiveMessageP6

SpecP6 == InitMH /\ [][NextP6]_vars

----------------------------------------------------------------------------
(* src/unnamed/part_004: the substring scanner of the mergeai.helloWorld   *)
(* command                                                                 *)

\* String.prototype.indexOf(marker, from) for a marker or "\n": -1 when none
indexOf(text, marker, from) ==
    LET hits == { p \in Max(from, 0)..(Len(text) - 1) : text[p + 1] = marker }
    IN  IF hits = {} THEN -1 ELSE minOf(hits)

\* mutant: the scan resumes right after the start marker it has just used
nextPositionAfterStart(startPos, conflictEndPos) == startPos + 1

\* position = conflictEndPos
nextPosition(startPos, conflictEndPos) == conflictEndPos

\* the while (true) loop from position on: each conflict with the offsets
\* startPos and conflictEndPos it was cut at
RECURSIVE spansFrom(_, _)
spansFrom(text, position) ==
    LET startPos  == indexOf(text, LT, position)
        middlePos == indexOf(text, EQ, startPos)
        endPos    == indexOf(text, GT, middlePos)
        endLinePos == indexOf(text, NL, endPos)
        conflictEndPos == IF endLinePos # -1 THEN endLinePos ELSE Len(text)
    IN  IF startPos = -1 \/ middlePos = -1 \/ endPos = -1 THEN <<>>
        ELSE <<[start |-> startPos, middle |-> middlePos, endMarker |-> endPos,
                end |-> conflictEndPos,
                text |-> substring(text, startPos, conflictEndPos)]>>
             \o spansFrom(text, nextPosition(startPos, conflictEndPos))

conflictSpans(text) == spansFrom(text, 0)

\* extractMergeConflicts of part_004: the conflict blocks as strings
extractMergeConflictsP4(text) ==
    [k \in 1..Len(conflictSpans(text)) |-> conflictSpans(text)[k].text]

\* the command up to the creation of the panel (updateWebviewContent with no
\* resolution yet)
helloWorld ==
    /\ phase = "closed"
    /\ IF /\ \E k \in 1..Len(document) : document[k] = LT
          /\ \E k \in 1..Len(document) : document[k] = GT
          /\ Len(extractMergeConflictsP4(document)) > 0
       THEN /\ phase' = "open"
            /\ conflicts' = extractMergeConflictsP4(document)
            /\ opened' = document
       ELSE /\ phase' = "none"
            /\ UNCHANGED <<conflicts, opened>>
    /\ last' = [noOp EXCEPT !.op = "helloWorld", !.before = document]
    /\ UNCHANGED <<document, fileContent, panel, accepted, posted, inbox, ai,
                   currentConflict, edits>>

----------------------------------------------------------------------------
(* The three scanners on one document: the user runs one of the commands   *)

ShapesScan ==
    { <<"q", "s", "c", "m", "c", "e">>,
      <<"s", "c", "r", "c", "m", "c", "e">>,
      <<"s", "c", "m", "c", "t", "c", "e">>,
      <<"s", "m", "c", "e">>,
      <<"s", "c", "m", "e">>,
      <<"s", "m", "c", "e", "s", "c", "m", "c", "e">>,
      <<"s", "c", "b", "c", "b", "c", "m", "c", "e">>,
      <<"s", "m", "s", "e">>,
      <<"s", "c", "m", "c", "e", "s", "c", "b", "c", "m", "c", "e", "c">> }

DocumentsScan == Documents \cup { textOf(kinds) : kinds \in ShapesScan }

InitScan == document \in DocumentsScan /\ closedPanel

NextScan ==
    \/ showImprovedMergeUI
    \/ handleMergeConflict
    \/ helloWorld

SpecScan == InitScan /\ [][NextScan]_vars

----------------------------------------------------------------------------
(* src/unnamed/part_005: the three-panel webview before refreshView.  Its  *)
(* handleMergeConflict, renderContent, acceptChange, clearResolvedSection, *)
(* section click listeners, commit and ai-submit handlers are the code of  *)
(* mergeHandler.ts; the aiResolve handling and applyResolution differ.     *)

\* the for loop of applyResolution from conflict k (1-based) down to the
\* first: resolvedCode is spliced over the span of each conflict
RECURSIVE spliceEach(_, _, _, _)
spliceEach(newText, cs, k, resolvedCode) ==
    IF k = 0 THEN newText
    ELSE spliceEach(substring(newText, 0, cs[k].start) \o resolvedCode
                        \o substring(newText, cs[k].end, Len(newText)),
                    cs, k - 1, resolvedCode)

\* applyResolution(editor, resolvedCode): the text the document is replaced by
applyResolutionP5(originalText, resolvedCode) ==
    LET cs == parseMergeConflicts(originalText)
    IN  spliceEach(originalText, cs, Len(cs), resolvedCode)

\* window 'message' listeners: setContent, and aiResponse applied to the
\* conflict that is current when the response arrives
webviewMessageP5 ==
    /\ Len(inbox) > 0
    /\ LET m == Head(inbox) IN
       /\ inbox' = Tail(inbox)
       /\ CASE m.command = "setContent" ->
                 /\ conflicts' = m.conflicts
                 /\ fileContent' = m.text
                 /\ panel' = renderContent(m.text, m.conflicts)
                 /\ accepted' = [k \in 1..Len(m.conflicts) |-> "none"]
            [] m.command = "aiResponse" ->
                 IF ~m.error /\ hasSection(panel, currentConflict)
                 THEN /\ panel' = withSection(panel, currentConflict,
                                              split(m.text))
                      /\ accepted' = [accepted EXCEPT
                                         ![currentConflict + 1] = "ai"]
                      /\ UNCHANGED <<conflicts, fileContent>>
                 ELSE UNCHANGED <<conflicts, fileContent, panel, accepted>>
    /\ UNCHANGED <<document, opened, phase, posted, ai, currentConflict, edits,
                   last>>

\* panel.webview.onDidReceiveMessage on the oldest message; for aiResolve up
\* to the await of callAI for message.conflicts[message.currentConflict]
onDidReceiveMessageP5 ==
    /\ Len(posted) > 0
    /\ LET m == Head(posted) IN
       /\ posted' = Tail(posted)
       /\ CASE m.command = "commitResolution" ->
                 /\ document' = applyResolutionP5(document, m.text)
                 /\ UNCHANGED <<ai, inbox>>
            [] m.command = "showError" ->
                 UNCHANGED <<document, ai, inbox>>
            [] m.command = "aiResolve" ->
                 IF m.index < Len(m.conflicts)
                 THEN /\ ai' = Append(ai, [i |-> m.index, n |-> 1])
                      /\ UNCHANGED <<document, inbox>>
                 ELSE /\ inbox' = Append(inbox,
                            [message("aiResponse") EXCEPT !.error = TRUE])
                      /\ UNCHANGED <<document, ai>>
    /\ UNCHANGED <<opened, phase, conflicts, fileContent, panel, accepted,
                   currentConflict, edits, last>>

\* callAI of request k resolves: the resolution is posted; the message itself
\* carries no conflict index, index records the conflict it was requested for
callAIResolvesP5(k, resolution) ==
    /\ k \in 1..Len(ai)
    /\ Len(inbox) < MaxInFlight
    /\ inbox' = Append(inbox,
          [message("aiResponse") EXCEPT !.text = resolution, !.index = ai[k].i])
    /\ ai' = removeAt(ai, k)
    /\ UNCHANGED <<document, opened, phase, conflicts, fileContent, panel,
                   accepted, posted, currentConflict, edits, last>>

\* callAI of request k throws: the catch block posts the error
callAIThrowsP5(k) ==
    /\ k \in 1..Len(ai)
    /\ Len(inbox) < MaxInFlight
    /\ inbox' = Append(inbox, [message("aiResponse") EXCEPT !.error = TRUE])
    /\ ai' = removeAt(ai, k)
    /\ UNCHANGED <<document, opened, phase, conflicts, fileContent, panel,
                   accepted, posted, currentConflict, edits, last>>

NextP5 ==
    \/ handleMergeConflict
    \/ webviewMessageP5
    \/ \E k \in 0..1 : \E source \in {"local", "remote"} :
          acceptChange(k, source)
    \/ \E k \in 0..1 : clearResolvedSection(k)
    \/ \E k \in 0..1 : sectionClick(k)
    \/ commitClick
    \/ aiSubmitClick
    \/ onDidReceiveMessageP5
    \/ \E k \in 1..MaxAiLoops : \E t \in AiTexts : callAIResolvesP5(k, t)
    \/ \E k \in 1..MaxAiLoops : callAIThrowsP5(k)

SpecP5 == InitMH /\ [][NextP5]_vars

----------------------------------------------------------------------------
(* src/unnamed/part_004: the resolution loop, the webview buttons and the  *)
(* message handler.  panel holds the resolutions array; phase is "open"    *)
(* from the creation of the panel until onDidReceiveMessage is called and  *)
(* "listening" from then on; inbox holds the messages on their way from    *)
(* the webview, posted every message the webview has posted, and accepted  *)
(* records for each message that reached the extension host whether a      *)
(* listener received it.                                                   *)

\* String.prototype.indexOf(search) for a search string of several symbols
indexOfText(text, search) ==
    LET hits == { p \in 0..(Len(text) - Len(search)) :
                     substring(text, p, p + Len(search)) = search }
    IN  IF hits = {} THEN -1 ELSE minOf(hits)

failedToGet        == <<"Error:", SP, "Failed", SP, "to", SP, "get">>
failedToRegenerate == <<"Error:", SP, "Failed", SP, "to", SP, "regenerate">>

\* documents the command is run on: one conflict, two different conflicts,
\* and the same conflict block twice
twinBlock == textOf(<<"s", "c", "m", "c", "e">>)

DocumentsP4 ==
    { textOf(<<"s", "c", "m", "c", "e">>),
      textOf(<<"c", "s", "c", "m", "c", "e", "c", "s", "c", "m", "c", "e">>),
      twinBlock \o <<NL, "x", NL>> \o twinBlock }

InitP4 == document \in DocumentsP4 /\ closedPanel

\* applyResolution(editor, index, resolution, originalConflict): the text
\* of the document after the call
applyResolutionP4(text, resolution, originalConflict) ==
    LET startPos == indexOfText(text, originalConflict)
        endPos   == startPos + Len(originalConflict)
    IN  IF startPos = -1 THEN text
        ELSE replaceRange(text, startPos, endPos, resolution)

\* the applyAll loop from i on; each turn reads the text the awaited
\* applyResolution of the turn before has left
RECURSIVE applyAllFrom(_, _, _, _)
applyAllFrom(text, i, cs, resolutions) ==
    IF i >= Len(cs) THEN text
    ELSE IF /\ i < Len(resolutions)
            /\ Len(resolutions[i + 1]) > 0
            /\ ~startsWith(resolutions[i + 1], "Error:")
         THEN CHOOSE result \in
                 { applyAllFrom(edited, i + 1, cs, resolutions) :
                     edited \in {applyResolutionP4(text, resolutions[i + 1],
                                                   cs[i + 1])} } : TRUE
         ELSE applyAllFrom(text, i + 1, cs, resolutions)

\* one turn of the for loop: getAIResolution(conflicts[i]) settles, the
\* resolution or the error text is pushed and the webview is rendered
\* again; after the last turn onDidReceiveMessage registers the handler
resolutionSettles(resolution) ==
    /\ phase = "open"
    /\ Len(conflicts) > 0
    /\ Len(panel) < Len(conflicts)
    /\ panel' = Append(panel, resolution)
    /\ phase' = IF Len(panel) + 1 = Len(conflicts) THEN "listening" ELSE "open"
    /\ UNCHANGED <<document, opened, conflicts, fileContent, accepted, posted,
                   inbox, ai, currentConflict, edits, last>>

\* the webview posts m
postMessageP4(m) ==
    /\ phase \in {"open", "listening"}
    /\ Len(posted) < MaxClicks
    /\ posted' = Append(posted, m)
    /\ inbox' = Append(inbox, m)
    /\ UNCHANGED <<document, opened, phase, conflicts, fileContent, panel,
                   accepted, ai, currentConflict, edits, last>>

\* click on "Apply Resolution" of conflict index, enabled once the
\* resolution is there and is no error text
applyClick(index) ==
    /\ index < Len(panel)
    /\ ~startsWith(panel[index + 1], "Error:")
    /\ postMessageP4([message("applyResolution") EXCEPT
                         !.index = index, !.text = panel[index + 1]])

\* click on "Regenerate" of conflict index
regenerateClick(index) ==
    /\ index < Len(conflicts)
    /\ postMessageP4([message("regenerate") EXCEPT !.index = index])

\* click on "Apply All Resolutions"
applyAllClick ==
    /\ phase \in {"open", "listening"}
    /\ postMessageP4(message("applyAll"))

\* a message reaches the extension host before onDidReceiveMessage has
\* registered a listener: the event fires with no listener
messageWithoutListener ==
    /\ phase = "open"
    /\ Len(inbox) > 0
    /\ inbox' = Tail(inbox)
    /\ accepted' = Append(accepted, "lost")
    /\ UNCHANGED <<document, opened, phase, conflicts, fileContent, panel,
                   posted, ai, currentConflict, edits, last>>

\* the handler given to panel.webview.onDidReceiveMessage
onDidReceiveMessageP4 ==
    /\ phase = "listening"
    /\ Len(inbox) > 0
    /\ LET m == Head(inbox)
       IN  CASE m.command = "applyResolution" ->
                  /\ document' = applyResolutionP4(document, m.text,
                                                   conflicts[m.index + 1])
                  /\ panel' = panel
             [] m.command = "applyAll" ->
                  /\ document' = applyAllFrom(document, 0, conflicts, panel)
                  /\ panel' = panel
             [] m.command = "regenerate" ->
                  /\ \E resolution \in AiTexts \cup {failedToRegenerate} :
                        panel' = [panel EXCEPT ![m.index + 1] = resolution]
                  /\ document' = document
    /\ inbox' = Tail(inbox)
    /\ accepted' = Append(accepted, "handled")
    /\ UNCHANGED <<opened, phase, conflicts, fileContent, posted, ai,
                   currentConflict, edits, last>>

NextP4 ==
    \/ helloWorld
    \/ \E resolution \in AiTexts \cup {failedToGet} : resolutionSettles(resolution)
    \/ \E index \in 0..1 : applyClick(index)
    \/ \E index \in 0..1 : regenerateClick(index)
    \/ applyAllClick
    \/ messageWithoutListener
    \/ onDidReceiveMessageP4

SpecP4 == InitP4 /\ [][NextP4]_vars

\* every awaited call settles and every posted message reaches the
\* extension host; nothing obliges the user to click
SpecP4Fair ==
    /\ SpecP4
    /\ WF_vars(\E resolution \in AiTexts \cup {failedToGet} :
                  resolutionSettles(resolution))
    /\ WF_vars(messageWithoutListener)
    /\ WF_vars(onDidReceiveMessageP4)

----------------------------------------------------------------------------
(* src/unnamed/part_003: the three-column view of one three-way conflict.  *)
(* conflicts holds the ConflictChunk parsed when the command was run,      *)
(* panel the accept and reject icon pairs of the rendered rows, each with  *)
(* its data-line, data-side and data-text; posted holds every message the  *)
(* webview has posted and inbox those not yet handled.                     *)

\* String.prototype.trimEnd()
RECURSIVE trimEnd(_)
trimEnd(text) ==
    IF Len(text) > 0 /\ text[Len(text)] \in {NL, SP}
    THEN trimEnd(SubSeq(text, 1, Len(text) - 1))
    ELSE text

\* doc.positionAt(offset).line
lineAtOffset(text, offset) ==
    Cardinality({ p \in 1..Min(offset, Len(text)) : text[p] = NL })

startMarkerP3 == <<LT, SP, "HEAD">>

\* parseThreeWayConflict(doc): the chunk, or found FALSE for null
parseThreeWayConflict(text) ==
    LET startIndex == indexOfText(text, startMarkerP3)
        baseIndex  == indexOf(text, BAR, startIndex)
        sepIndex   == indexOf(text, EQ, baseIndex)
        endIndex   == indexOf(text, GT, sepIndex)
        currentCode == trimEnd(substring(text, startIndex + Len(startMarkerP3),
                                         baseIndex))
    IN  IF startIndex = -1 \/ baseIndex = -1 \/ sepIndex = -1 \/ endIndex = -1
        THEN [found |-> FALSE]
        ELSE [found |-> TRUE,
              original |-> trimEnd(substring(text, baseIndex + 1, sepIndex)),
              current |-> currentCode,
              incoming |-> trimEnd(substring(text, sepIndex + 1, endIndex)),
              startIndex |-> startIndex,
              endIndex |-> endIndex + 1,
              headStartLine |->
                  lineAtOffset(text, startIndex + Len(startMarkerP3)),
              headLineCount |-> Len(split(currentCode))]

\* lines[i] ?? '' for the 0-based i
lineOrEmpty(lines, i) == IF i < Len(lines) THEN lines[i + 1] ELSE <<>>

\* the icon pairs getWebviewContent(conflict, doc) renders, row by row; the
\* data-text attribute gives back the line it was written from
getWebviewContent(conflict, text) ==
    LET origLines == split(conflict.original)
        incLines  == split(conflict.incoming)
        docLines  == split(text)
        headDocLines ==
            [i \in 1..conflict.headLineCount |->
                lineOrEmpty(docLines, conflict.headStartLine + i - 1)]
        rows == Max(Len(origLines), Max(Len(headDocLines), Len(incLines)))
        iconsOf(i, side, line) ==
            IF ~isBlank(line) /\ line # lineOrEmpty(headDocLines, i)
            THEN <<[line |-> conflict.headStartLine + i, side |-> side,
                    text |-> line]>>
            ELSE <<>>
    IN  flatten([r \in 1..rows |->
            iconsOf(r - 1, "original", lineOrEmpty(origLines, r - 1))
            \o iconsOf(r - 1, "incoming", lineOrEmpty(incLines, r - 1))])

\* the text of the document after applyLineChange(msg, editor)
applyLineChange(text, lineIndex, newLine) ==
    LET lines == split(text)
    IN  IF lineIndex >= 0 /\ lineIndex < Len(lines)
        THEN join([lines EXCEPT ![lineIndex + 1] = newLine])
        ELSE text

ShapesP3 ==
    { <<"s", "c", "b", "c", "m", "c", "e">>,
      <<"c", "s", "c", "c", "b", "c", "m", "c", "e", "c">>,
      <<"s", "c", "b", "c", "c", "m", "c", "c", "c", "e", "c">>,
      <<"s", "c", "m", "c", "e">>,
      <<"c", "c">> }

DocumentsP3 == { textOf(kinds) : kinds \in ShapesP3 }

InitP3 == document \in DocumentsP3 /\ closedPanel

\* mergeai.openCustomMergeView: the command is run on the active editor
openCustomMergeView ==
    /\ phase = "closed"
    /\ LET conflict == parseThreeWayConflict(document)
       IN  IF conflict.found
           THEN /\ phase' = "open"
                /\ conflicts' = conflict
                /\ opened' = document
                /\ panel' = getWebviewContent(conflict, document)
           ELSE /\ phase' = "none"
                /\ UNCHANGED <<conflicts, opened, panel>>
    /\ UNCHANGED <<document, fileContent, accepted, posted, inbox, ai,
                   currentConflict, edits, last>>

\* click on the accept icon of pair k
acceptIconClick(k) ==
    /\ phase = "open"
    /\ k \in 1..Len(panel)
    /\ Len(posted) < MaxClicks
    /\ LET m == [message("applyLineChange") EXCEPT
                    !.index = panel[k].line, !.choice = panel[k].side,
                    !.text = panel[k].text]
       IN  posted' = Append(posted, m) /\ inbox' = Append(inbox, m)
    /\ UNCHANGED <<document, opened, phase, conflicts, fileContent, panel,
                   accepted, ai, currentConflict, edits, last>>

\* click on the reject icon of pair k
rejectIconClick(k) ==
    /\ phase = "open"
    /\ k \in 1..Len(panel)
    /\ Len(posted) < MaxClicks
    /\ LET m == [message("doNothing") EXCEPT
                    !.index = panel[k].line, !.choice = panel[k].side]
       IN  posted' = Append(posted, m) /\ inbox' = Append(inbox, m)
    /\ UNCHANGED <<document, opened, phase, conflicts, fileContent, panel,
                   accepted, ai, currentConflict, edits, last>>

\* the handler given to panel.webview.onDidReceiveMessage
onDidReceiveMessageP3 ==
    /\ phase = "open"
    /\ Len(inbox) > 0
    /\ inbox' = Tail(inbox)
    /\ IF Head(inbox).command = "applyLineChange"
       THEN /\ document' = applyLineChange(document, Head(inbox).index,
                                           Head(inbox).text)
            /\ panel' = getWebviewContent(conflicts, document')
       ELSE UNCHANGED <<document, panel>>
    /\ UNCHANGED <<opened, phase, conflicts, fileContent, accepted, posted, ai,
                   currentConflict, edits, last>>

NextP3 ==
    \/ openCustomMergeView
    \/ \E k \in 1..MaxIcons : acceptIconClick(k)
    \/ \E k \in 1..MaxIcons : rejectIconClick(k)
    \/ onDidReceiveMessageP3

SpecP3 == InitP3 /\ [][NextP3]_vars

----------------------------------------------------------------------------
(* src/package.json, lines 60-233: the line-based webview script.          *)
(* conflicts holds conflictData.local and conflictData.remote, panel holds *)
(* conflictData.merged, currentConflict holds currentIndex.                *)

\* line arrays a setConflicts message may carry
LocalLines  == { <<<<"x">>>>, <<<<"x">>, <<"y">>>> }
RemoteLines == { <<<<"p">>>>, <<<<"p">>, <<"q">>>> }

\* 'message' listener, setConflicts: setConflictData(localLines, remoteLines)
setConflictData(localLines, remoteLines) ==
    /\ phase = "closed"
    /\ phase' = "open"
    /\ conflicts' = [local |-> localLines, remote |-> remoteLines]
    /\ panel' = <<>>
    /\ UNCHANGED <<document, opened, fileContent, accepted, posted, inbox, ai,
                   currentConflict, edits, last>>

\* conflictData.merged after acceptChange(source, index)
mergedAfter(merged, data, source, index) ==
    Append(merged,
           [content |-> IF source = "local" THEN data.local[index + 1]
                        ELSE data.remote[index + 1],
            source |-> source])

\* click on line index of the local or remote editor
acceptChangePJ(source, index) ==
    /\ phase = "open"
    /\ Len(panel) < MaxMerged
    /\ index < Len(IF source = "local" THEN conflicts.local ELSE conflicts.remote)
    /\ panel' = mergedAfter(panel, conflicts, source, index)
    /\ UNCHANGED <<document, opened, phase, conflicts, fileContent, accepted,
                   posted, inbox, ai, currentConflict, edits, last>>

\* document 'keydown' listener
keydownPJ(key) ==
    /\ phase = "open"
    /\ CASE key = "ArrowLeft" ->
              /\ currentConflict < Len(conflicts.local)
              /\ Len(panel) < MaxMerged
              /\ panel' = mergedAfter(panel, conflicts, "local", currentConflict)
              /\ currentConflict' = currentConflict + 1
         [] key = "ArrowRight" ->
              /\ currentConflict < Len(conflicts.remote)
              /\ Len(panel) < MaxMerged
              /\ panel' = mergedAfter(panel, conflicts, "remote", currentConflict)
              /\ currentConflict' = currentConflict + 1
         [] key = "ArrowUp" ->
              /\ currentConflict > 0
              /\ currentConflict' = currentConflict - 1
              /\ panel' = panel
         [] key \in {"ArrowDown", " "} ->
              /\ currentConflict <
                    Max(Len(conflicts.local), Len(conflicts.remote)) - 1
              /\ currentConflict' = currentConflict + 1
              /\ panel' = panel
    /\ UNCHANGED <<document, opened, phase, conflicts, fileContent, accepted,
                   posted, inbox, ai, edits, last>>

\* click on commitChanges
commitChangesClick ==
    /\ phase = "open"
    /\ Len(posted) < MaxPosted
    /\ posted' = Append(posted,
          IF Len(panel) = 0 THEN message("showError")
          ELSE [message("commitResolution") EXCEPT
                   !.text = join([k \in 1..Len(panel) |-> panel[k].content])])
    /\ UNCHANGED <<document, opened, phase, conflicts, fileContent, panel,
                   accepted, inbox, ai, currentConflict, edits, last>>

NextPJ ==
    \/ \E l \in LocalLines : \E r \in RemoteLines : setConflictData(l, r)
    \/ \E source \in {"local", "remote"} : \E index \in 0..1 :
          acceptChangePJ(source, index)
    \/ \E key \in Keys : keydownPJ(key)
    \/ commitChangesClick

SpecPJ == InitMH /\ [][NextPJ]_vars

----------------------------------------------------------------------------
(* Reference notions for the claims about the merge panel *)

\* content with every conflict block from the k-th on replaced by the text of
\* one side; the line terminator that ends the block is kept
RECURSIVE splicedFrom(_, _, _, _, _)
splicedFrom(content, cs, side, k, lastPos) ==
    IF k > Len(cs) THEN substring(content, lastPos, Len(content))
    ELSE substring(content, lastPos, cs[k].start)
         \o (IF side = "local" THEN cs[k].local ELSE cs[k].remote)
         \o (IF cs[k].end > 0 /\ content[cs[k].end] = NL THEN <<NL>> ELSE <<>>)
         \o splicedFrom(content, cs, side, k + 1, cs[k].end)

spliced(content, cs, side) == splicedFrom(content, cs, side, 1, 0)

\* sub occurs in text as a run of consecutive characters
contains(text, sub) ==
    \E a \in 0..(Len(text) - Len(sub)) : substring(text, a, a + Len(sub)) = sub

\* messages the commit button has posted and the extension has not handled yet
commitMessages ==
    { k \in 1..Len(posted) :
        posted[k].command \in {"commitResolution", "showError"} }

----------------------------------------------------------------------------
(* C3: when the local side was accepted for every conflict and the user    *)
(* commits, the text applyResolution writes to the document is the         *)
(* original text with each conflict block replaced by exactly its local    *)
(* text, all other text unchanged; likewise with the remote side.          *)
C3_CommitSplicesChosenSide ==
    \A k \in 1..Len(posted) :
        /\ posted[k].command = "commitResolution"
        /\ posted[k].choice \in {"local", "remote"}
        => applyResolution(document, posted[k].text)
               = spliced(fileContent, conflicts, posted[k].choice)

----------------------------------------------------------------------------
(* C7: clicking commit while at least one conflict is unresolved posts     *)
(* showError and never commitResolution; applyResolution is not called for *)
(* it and the document is not modified.                                    *)
C7_CommitRefusedWhileUnresolved ==
    /\ [](\A k \in commitMessages :
            posted[k].unresolved > 0 => posted[k].command = "showError")
    /\ [][document' # document =>
            /\ Len(posted) > 0
            /\ Head(posted).command = "commitResolution"
            /\ Head(posted).unresolved = 0]_vars

\* a commit click was refused with one conflict resolved and another not
C7_Witness ==
    /\ \E k \in commitMessages :
          posted[k].command = "showError" /\ posted[k].unresolved > 0
    /\ \E k \in 1..Len(accepted) : accepted[k] # "none"
    /\ document = opened

----------------------------------------------------------------------------
(* C8: commit treats the conflict set as fully resolved if and only if     *)
(* every conflict has had a resolution accepted since its last clear, also *)
(* when the accepted side is empty or whitespace-only.                     *)
C8_ResolvedIffAllAccepted ==
    \A k \in commitMessages :
        posted[k].command = "commitResolution" <=> posted[k].unresolved = 0

----------------------------------------------------------------------------
\* the marker-delimited block of conflict k: start marker line to end marker
\* line, without the line terminator after the end marker
blockOf(content, conflict) ==
    IF conflict.end > 0 /\ content[conflict.end] = NL
    THEN substring(content, conflict.start, conflict.end - 1)
    ELSE substring(content, conflict.start, conflict.end)

(* C9: in the panel of unnamed/part_006, every conflict left unresolved    *)
(* when commit is clicked appears in the text written back to the document *)
(* with its original marker-delimited block unchanged, byte for byte.      *)
C9_UnresolvedBlockKept ==
    \A k \in 1..Len(posted) :
        posted[k].command = "commitResolution" =>
            \A j \in 1..Len(posted[k].accepted) :
                posted[k].accepted[j] = "none" =>
                    contains(applyResolution(document, posted[k].text),
                             blockOf(fileContent, conflicts[j]))

----------------------------------------------------------------------------
\* lines p.. (0-based) are one well-formed conflict, possibly followed by
\* non-marker lines
wellFormedAt(lines, p) ==
    /\ p < Len(lines)
    /\ isStart(lines[p + 1])
    /\ conflictCount(join(slice(lines, p, Len(lines)))) = 1

\* lines 0..p-1 hold marker lines that close no conflict: at least one start,
\* base or separator line and no end marker line
malformedBefore(lines, p) ==
    /\ p >= 1
    /\ \E k \in 1..p : isMarker(lines[k])
    /\ \A k \in 1..p : ~isEnd(lines[k])

sameSides(r1, r2) ==
    /\ r1.current = r2.current
    /\ r1.original = r2.original
    /\ r1.incoming = r2.incoming
    /\ r1.hasCommonAncestor = r2.hasCommonAncestor

(* C11: when a well-formed conflict follows malformed marker lines, the    *)
(* region extractMergeConflicts returns for it has the same current,       *)
(* original, incoming and hasCommonAncestor as when the conflict is        *)
(* extracted from the document with the malformed lines removed.           *)
C11_MalformedLinesSkipped ==
    LET lines == split(document)
    IN  \A p \in 1..(Len(lines) - 1) :
          wellFormedAt(lines, p) /\ malformedBefore(lines, p) =>
            LET found == extractMergeConflicts(document)
                alone == extractMergeConflicts(join(slice(lines, p, Len(lines))))
            IN  /\ Len(found) = 1
                /\ Len(alone) = 1
                /\ sameSides(found[1], alone[1])

----------------------------------------------------------------------------
\* separator line and end marker line of the well-formed conflict whose
\* start marker is line s (0-based)
separatorAfter(lines, s) == firstLine(lines, s + 1, Len(lines), EQ)
endAfter(lines, s) == firstLine(lines, separatorAfter(lines, s) + 1, Len(lines), GT)

\* offset just after line i and its line terminator
offsetAfterLine(lines, i) ==
    Min(lineOffset(lines, i) + Len(lines[i + 1]) + 1, Len(join(lines)))

(* C12: for a well-formed conflict whose local or incoming side has zero   *)
(* lines, parseMergeConflicts returns a conflict for that block, starting  *)
(* at its start marker and ending with its end marker line, whose local    *)
(* (respectively remote) field is the empty string.                        *)
C12_EmptySideParsed ==
    LET lines == split(document)
        found == parseMergeConflicts(document)
    IN  conflictCount(document) >= 1 =>
          \A s \in 0..(Len(lines) - 1) :
            LET sep == separatorAfter(lines, s)
                en  == endAfter(lines, s)
            IN  isStart(lines[s + 1]) /\ (sep = s + 1 \/ en = sep + 1) =>
                  \E k \in 1..Len(found) :
                    /\ found[k].start = lineOffset(lines, s)
                    /\ found[k].end = offsetAfterLine(lines, en)
                    /\ sep = s + 1 => found[k].local = <<>>
                    /\ en = sep + 1 => found[k].remote = <<>>

----------------------------------------------------------------------------
\* offset p (0-based) is the first character of a line
atLineStart(text, p) == p = 0 \/ (p <= Len(text) /\ text[p] = NL)

\* offsets of the separator and of the end marker of a parsed conflict
separatorOffset(c) == c.start + 2 + Len(c.header) + 1 + Len(c.local) + 1
endMarkerOffset(c) == separatorOffset(c) + 2 + Len(c.remote) + 1

markersAtLineStartMH(text) ==
    \A k \in 1..Len(parseMergeConflicts(text)) :
        LET c == parseMergeConflicts(text)[k]
        IN  /\ atLineStart(text, c.start)
            /\ atLineStart(text, separatorOffset(c))
            /\ atLineStart(text, endMarkerOffset(c))

markersAtLineStartP4(text) ==
    \A k \in 1..Len(conflictSpans(text)) :
        LET c == conflictSpans(text)[k]
        IN  /\ atLineStart(text, c.start)
            /\ atLineStart(text, c.middle)
            /\ atLineStart(text, c.endMarker)

(* C13: for every conflict returned by parseMergeConflicts (mergeHandler)  *)
(* and by extractMergeConflicts (part_004), the start marker, the          *)
(* separator and the end marker each begin at the start of a line.         *)
C13_MarkersAtLineStart ==
    markersAtLineStartMH(document) /\ markersAtLineStartP4(document)

----------------------------------------------------------------------------
\* start marker line of the conflict whose end marker is line e
startBefore(lines, e) ==
    LET hits == { k \in 0..(e - 1) : isStart(lines[k + 1]) }
    IN  IF hits = {} THEN -1 ELSE maxOf(hits)

\* the conflict that starts at line s has at least one line on each side
nonEmptySides(lines, s) ==
    LET sep  == separatorAfter(lines, s)
        base == firstLine(lines, s + 1, sep, BAR)
    IN  /\ (IF base # -1 THEN base ELSE sep) > s + 1
        /\ endAfter(lines, s) > sep + 1

\* region r of extension.ts is the conflict that starts at line s, with only
\* its own sides
ownRegion(lines, r, s) ==
    LET sep  == separatorAfter(lines, s)
        base == firstLine(lines, s + 1, sep, BAR)
    IN  /\ r.startLine = s
        /\ r.endLine = endAfter(lines, s)
        /\ r.current = join(slice(lines, s + 1, IF base # -1 THEN base ELSE sep))
        /\ r.incoming = join(slice(lines, sep + 1, endAfter(lines, s)))

\* conflict c of mergeHandler.ts is the conflict that starts at line s
ownConflict(lines, c, s) ==
    LET sep == separatorAfter(lines, s)
    IN  /\ c.start = lineOffset(lines, s)
        /\ c.end = offsetAfterLine(lines, endAfter(lines, s))
        /\ c.local = join(slice(lines, s + 1, sep))
        /\ c.remote = join(slice(lines, sep + 1, endAfter(lines, s)))

\* end marker lines directly followed by the start marker of another
\* conflict, both conflicts with non-empty sides
adjacentPairs(text) ==
    LET lines == split(text)
    IN  IF conflictCount(text) < 2 THEN {}
        ELSE { e \in 1..(Len(lines) - 2) :
                 /\ isEnd(lines[e + 1])
                 /\ isStart(lines[e + 2])
                 /\ nonEmptySides(lines, startBefore(lines, e))
                 /\ nonEmptySides(lines, e + 1) }

(* C14: two well-formed conflicts with non-empty sides, the second start   *)
(* marker line directly after the first end marker line, are returned as   *)
(* two distinct consecutive regions, each with its own sides and span, by  *)
(* extractMergeConflicts (extension.ts) and by parseMergeConflicts.        *)
C14_AdjacentConflictsSeparate ==
    LET lines == split(document)
        ext   == extractMergeConflicts(document)
        mh    == parseMergeConflicts(document)
    IN  \A e \in adjacentPairs(document) :
          /\ \E k \in 1..(Len(ext) - 1) :
                /\ ownRegion(lines, ext[k], startBefore(lines, e))
                /\ ownRegion(lines, ext[k + 1], e + 1)
          /\ \E k \in 1..(Len(mh) - 1) :
                /\ ownConflict(lines, mh[k], startBefore(lines, e))
                /\ ownConflict(lines, mh[k + 1], e + 1)

\* one of the commands found the two conflicts of an adjacent pair
C14_Witness ==
    /\ adjacentPairs(document) # {}
    /\ phase = "open"
    /\ \/ Len(conflicts) = 2 /\ last.op = "showMergeUI"
       \/ Len(inbox) = 1 /\ Len(inbox[1].conflicts) = 2

----------------------------------------------------------------------------
(* C15: the regions returned by one call of a scanner are non-overlapping  *)
(* and ascending: in extension.ts region k+1 has startLine > endLine of    *)
(* region k; in mergeHandler.ts and in part_004 conflict k+1 starts at an  *)
(* offset >= the end offset of conflict k.                                 *)
C15_RegionsAscending ==
    LET ext == extractMergeConflicts(document)
        mh  == parseMergeConflicts(document)
        p4  == conflictSpans(document)
    IN  /\ \A k \in 1..(Len(ext) - 1) : ext[k + 1].startLine > ext[k].endLine
        /\ \A k \in 1..(Len(mh) - 1) : mh[k + 1].start >= mh[k].end
        /\ \A k \in 1..(Len(p4) - 1) : p4[k + 1].start >= p4[k].end

\* the part_004 command found several conflicts, which the other two
\* scanners find as well
C15_Witness ==
    /\ phase = "open"
    /\ last.op = "helloWorld"
    /\ Len(conflicts) >= 2
    /\ Len(extractMergeConflicts(document)) >= 2
    /\ Len(parseMergeConflicts(document)) >= 2

----------------------------------------------------------------------------
\* region r was built from a separator line, and with hasCommonAncestor from
\* a base marker line, that lie strictly inside startLine..endLine
markersInsideSpan(lines, r) ==
    \E sep \in (r.startLine + 1)..(r.endLine - 1) :
        /\ isSeparator(lines[sep + 1])
        /\ r.incoming = join(slice(lines, sep + 1, r.endLine))
        /\ IF r.hasCommonAncestor
           THEN \E base \in (r.startLine + 1)..(sep - 1) :
                   /\ isBase(lines[base + 1])
                   /\ r.current = join(slice(lines, r.startLine + 1, base))
                   /\ r.original = join(slice(lines, base + 1, sep))
           ELSE r.current = join(slice(lines, r.startLine + 1, sep))

(* C16: for every region returned by extractMergeConflicts (extension.ts)  *)
(* on any text, startLine < endLine, the start marker is at startLine, the *)
(* end marker at endLine, and the separator (and the base marker when      *)
(* hasCommonAncestor is true) used to build it is strictly inside.         *)
C16_SpanContainsMarkers ==
    LET lines == split(document)
        found == extractMergeConflicts(document)
    IN  \A k \in 1..Len(found) :
          /\ found[k].startLine < found[k].endLine
          /\ isStart(lines[found[k].startLine + 1])
          /\ isEnd(lines[found[k].endLine + 1])
          /\ markersInsideSpan(lines, found[k])

----------------------------------------------------------------------------
\* base marker lines between the start marker line s and its separator
baseLines(lines, s) ==
    { k \in (s + 1)..(separatorAfter(lines, s) - 1) : isBase(lines[k + 1]) }

(* C17: when several base marker lines occur between a start marker and    *)
(* its separator, extractMergeConflicts (extension.ts) honours the first:  *)
(* current ends at the first base marker line and original is the text     *)
(* from the line after it up to the separator.                             *)
C17_FirstBaseMarkerHonoured ==
    LET lines == split(document)
        found == extractMergeConflicts(document)
    IN  \A k \in 1..Len(found) :
          LET s == found[k].startLine
          IN  Cardinality(baseLines(lines, s)) >= 2
              /\ separatorAfter(lines, s) < found[k].endLine =>
                LET first == minOf(baseLines(lines, s))
                IN  /\ found[k].current = join(slice(lines, s + 1, first))
                    /\ found[k].original =
                          join(slice(lines, first + 1, separatorAfter(lines, s)))

----------------------------------------------------------------------------
\* the lines of the side a resolution was accepted from
sideLines(conflict, source) ==
    IF source = "local" THEN split(conflict.local) ELSE split(conflict.remote)

\* resolved lines of the section of conflict index (0-based); <<>> without it
sectionLines(nodes, index) ==
    IF hasSection(nodes, index)
    THEN nodes[CHOOSE k \in 1..Len(nodes) :
                 nodes[k].kind = "conflict-section" /\ nodes[k].index = index].lines
    ELSE <<>>

\* the step is a call acceptChange(index, source) that changes something
acceptStep(index, source) ==
    /\ inbox' = inbox
    /\ posted' = posted
    /\ index + 1 <= Len(accepted)
    /\ accepted'[index + 1] = source
    /\ \/ accepted[index + 1] # source
       \/ sectionLines(panel, index) # sectionLines(panel', index)

(* C18: acceptChange(i, source) sets the resolved content of conflict i to *)
(* exactly the lines of the chosen side, whatever the content was before;  *)
(* so accepting a side again changes nothing and the content after several *)
(* accepts is that of the last one.                                        *)
C18_AcceptSetsChosenSide ==
    [][\A index \in 0..1 : \A source \in {"local", "remote"} :
          acceptStep(index, source) =>
              sectionLines(panel', index) = sideLines(conflicts[index + 1], source)]_vars

\* a side with fewer lines than the section held before was accepted
C18_Witness ==
    \E k \in 1..Len(accepted) :
        /\ accepted[k] \in {"local", "remote"}
        /\ sectionLines(panel, k - 1) = sideLines(conflicts[k], accepted[k])
        /\ Len(sectionLines(panel, k - 1)) < maxLines(conflicts[k])

----------------------------------------------------------------------------
\* texts of the conflict-resolved lines of the flat panel, in document order
RECURSIVE resolvedTexts(_)
resolvedTexts(nodes) ==
    IF Len(nodes) = 0 THEN <<>>
    ELSE (IF nodes[1].kind = "conflict-resolved" THEN <<nodes[1].text>> ELSE <<>>)
         \o resolvedTexts(Tail(nodes))

\* number of resolved lines rendered for the conflicts before the j-th
RECURSIVE linesBefore(_, _)
linesBefore(cs, j) ==
    IF j <= 1 THEN 0 ELSE linesBefore(cs, j - 1) + maxLines(cs[j - 1])

\* the resolved lines rendered for the j-th conflict (1-based)
resolvedOf(nodes, cs, j) ==
    SubSeq(resolvedTexts(nodes), linesBefore(cs, j) + 1,
           linesBefore(cs, j) + maxLines(cs[j]))

\* lines, followed by the empty lines left of the n rendered for the conflict
padded(lines, n) == lines \o emptyLines(Max(0, n - Len(lines)))

(* C19: in the panel of unnamed/part_006, acceptChange(i, source) sets the *)
(* resolved lines of conflict i to the lines of the chosen side and leaves *)
(* the resolved lines of every other conflict unchanged: each conflict     *)
(* shows the side last accepted for it, or nothing when none was.          *)
C19_AcceptOnlyOwnConflict ==
    \A j \in 1..Len(accepted) :
        resolvedOf(panel, conflicts, j) =
            IF accepted[j] = "none" THEN emptyLines(maxLines(conflicts[j]))
            ELSE padded(sideLines(conflicts[j], accepted[j]),
                        maxLines(conflicts[j]))

----------------------------------------------------------------------------
(* C20: in mergeHandler.ts a conflict that has a resolution keeps it until *)
(* clearResolvedSection is called for its index: no other event, such as   *)
(* the refreshView sent on a view-state change, resets resolved content.   *)
C20_ResolutionKeptUntilClear ==
    \A k \in 1..Len(accepted) :
        /\ accepted[k] \in {"local", "remote"} =>
              sectionLines(panel, k - 1) = sideLines(conflicts[k], accepted[k])
        /\ accepted[k] = "ai" =>
              \E t \in AiTexts : sectionLines(panel, k - 1) = split(t)

----------------------------------------------------------------------------
\* the webview handles an AI resolution that arrived without error
aiResponseStep ==
    /\ Len(inbox) > 0
    /\ Head(inbox).command = "aiResponse"
    /\ ~Head(inbox).error
    /\ inbox' = Tail(inbox)

----------------------------------------------------------------------------
(* C26: in unnamed/part_005 handling a commitResolution message makes the  *)
(* document's content equal to the resolved code composed in the webview.  *)
C26_CommitWritesResolvedCode ==
    \A k \in 1..Len(posted) :
        posted[k].command = "commitResolution" =>
            applyResolutionP5(document, posted[k].text) = posted[k].text

----------------------------------------------------------------------------
\* the commit check judges conflict index (0-based) unresolved
judgedUnresolved(nodes, index) ==
    \E k \in unresolvedSections(nodes) : nodes[k].index = index

\* the step is a call clearResolvedSection(index) that changes something
clearStep(index) ==
    /\ inbox' = inbox
    /\ posted' = posted
    /\ index + 1 <= Len(accepted)
    /\ accepted'[index + 1] = "none"
    /\ \/ accepted[index + 1] # "none"
       \/ sectionLines(panel, index) # sectionLines(panel', index)

(* C22: clearResolvedSection(i) leaves conflict i unresolved as judged by  *)
(* the commit check and changes no other conflict; on a conflict that is   *)
(* already unresolved (never accepted, or cleared) it changes nothing.     *)
C22_ClearResetsAndIsIdempotent ==
    /\ [][\A index \in 0..1 :
             clearStep(index) =>
                /\ judgedUnresolved(panel', index)
                /\ \A j \in 0..(Len(conflicts) - 1) :
                      j # index =>
                         sectionLines(panel', j) = sectionLines(panel, j)]_vars
    /\ [](\A k \in 1..Len(accepted) :
             accepted[k] = "none" /\ hasSection(panel, k - 1) =>
                /\ judgedUnresolved(panel, k - 1)
                /\ withSection(panel, k - 1,
                               emptyLines(maxLines(conflicts[k]))) = panel)

\* a conflict was cleared after a commit click that found every conflict
\* resolved
C22_Witness ==
    /\ Len(posted) > 0
    /\ Head(posted).command = "commitResolution"
    /\ \E k \in 1..Len(accepted) :
          accepted[k] = "none" /\ judgedUnresolved(panel, k - 1)

----------------------------------------------------------------------------
\* the last message handled was an accept message of the extension.ts webview
lastIsAccept ==
    last.op \in {"acceptOriginal", "acceptCurrent", "acceptIncoming",
                 "acceptCustom"}

(* C23: a resolveWith* call whose conflictIndex is not the index of a      *)
(* conflict extractable from the document leaves the document unchanged,   *)
(* and a call with a valid index, also after such a call, makes its edit.  *)
C23_BadIndexLeavesDocument ==
    lastIsAccept =>
        LET found == extractMergeConflicts(last.before)
        IN  IF last.index >= Len(found) THEN document = last.before
            ELSE document =
                    resolveEdit(last.before, found[last.index + 1],
                                replacementOf(last.op, found[last.index + 1],
                                              last.text))

\* the third call edits the document of a panel opened on two well-formed
\* conflicts: one of the two calls before it had an index out of range
C23_Witness ==
    /\ lastIsAccept
    /\ edits = 3
    /\ conflictCount(opened) = 2
    /\ last.index < Len(extractMergeConflicts(last.before))
    /\ document # last.before

----------------------------------------------------------------------------
(* C25: an accept message carrying conflictIndex j replaces the conflict   *)
(* that has index j in the list shown to the user (extracted when the      *)
(* panel was opened), also after conflicts with a smaller index have been  *)
(* resolved in the document.                                               *)
C25_IndexRefersToShownConflict ==
    lastIsAccept /\ last.index < Len(conflicts) =>
        LET shown == conflicts[last.index + 1]
            found == extractMergeConflicts(last.before)
        IN  (\E k \in 1..Len(found) : sameSides(found[k], shown)) =>
              \E k \in 1..Len(found) :
                 /\ sameSides(found[k], shown)
                 /\ document =
                       resolveEdit(last.before, found[k],
                                   replacementOf(last.op, found[k], last.text))

----------------------------------------------------------------------------
(* C24: in the line-based webview script of src/package.json, accepting    *)
(* the same line of the same side twice leaves conflictData.merged as      *)
(* after accepting it once: merged, and so the resolvedCode sent on        *)
(* commit, holds each accepted line of a side once.                        *)
C24_AcceptLineIdempotent ==
    \A i \in 1..Len(panel) : \A j \in 1..Len(panel) :
        i < j => panel[i] # panel[j]

----------------------------------------------------------------------------
(* C27: in part_004, every applyResolution, applyAll or regenerate message *)
(* the webview posts is eventually received by the handler of the          *)
(* extension, also when it is posted while resolutions of later conflicts  *)
(* are still being fetched.                                                *)
C27_PostedMessageHandled ==
    \A k \in 1..MaxClicks :
        (Len(posted) >= k) ~> (Len(accepted) >= k /\ accepted[k] = "handled")

----------------------------------------------------------------------------
(* C30: in part_004, applying the resolution of conflict i replaces the    *)
(* i-th extracted block where it stands and leaves the rest of the         *)
(* document as it is, also when another block has the same text and for    *)
(* every order of applying; applyAll does so for every conflict whose      *)
(* resolution is there and is no error text.                               *)

\* the text of opened before the first block (k = 0) or after block k
gapAfter(k) ==
    LET spans == conflictSpans(opened)
    IN  substring(opened,
                  IF k = 0 THEN 0 ELSE spans[k].end,
                  IF k = Len(spans) THEN Len(opened) ELSE spans[k + 1].start)

\* opened with block k replaced by xs[k]
composed(xs) ==
    gapAfter(0) \o flatten([k \in 1..Len(xs) |-> xs[k] \o gapAfter(k)])

\* what may stand in the place of the blocks
blockTexts ==
    { xs \in [1..Len(conflicts) -> AiTexts \cup {conflicts[k] : k \in 1..Len(conflicts)}] :
         \A k \in 1..Len(conflicts) : xs[k] \in AiTexts \cup {conflicts[k]} }

usable(resolutions, k) ==
    /\ k <= Len(resolutions)
    /\ Len(resolutions[k]) > 0
    /\ ~startsWith(resolutions[k], "Error:")

handledStep(command) ==
    /\ phase = "listening"
    /\ Len(inbox) > 0
    /\ inbox' = Tail(inbox)
    /\ Head(inbox).command = command

C30_ApplyReplacesOwnBlock ==
    [][ /\ handledStep("applyResolution") =>
            \A xs \in blockTexts :
               LET i == Head(inbox).index + 1
               IN  (document = composed(xs) /\ xs[i] = conflicts[i]) =>
                      document' = composed([xs EXCEPT ![i] = Head(inbox).text])
        /\ handledStep("applyAll") =>
            \A xs \in blockTexts :
               document = composed(xs) =>
                  document' = composed([k \in 1..Len(xs) |->
                      IF xs[k] = conflicts[k] /\ usable(panel, k)
                      THEN panel[k] ELSE xs[k]]) ]_vars

----------------------------------------------------------------------------
(* C28: in mergeHandler.ts, the loop started by one aiResolve message      *)
(* posts its aiResponse messages for the conflicts 0, 1, ... in this       *)
(* order, one per call of callAI that resolves; when the call for          *)
(* conflict k throws, one aiResponse with an error is posted and the loop  *)
(* is over, so nothing is posted for a conflict >= k; the webview leaves   *)
(* the resolved sections as they are when it handles the error.            *)

\* this step posts an aiResponse to the webview
responsePosted ==
    /\ Len(inbox') = Len(inbox) + 1
    /\ SubSeq(inbox', 1, Len(inbox)) = inbox
    /\ inbox'[Len(inbox')].command = "aiResponse"

\* this step is the webview handling an aiResponse that carries an error
errorHandled ==
    /\ Len(inbox) > 0
    /\ inbox' = Tail(inbox)
    /\ Head(inbox).command = "aiResponse"
    /\ Head(inbox).error

C28_AiResponsesInOrder ==
    [][ /\ Len(ai') > Len(ai) => ai'[Len(ai')].i = 0
        /\ responsePosted =>
              LET m == inbox'[Len(inbox')]
              IN  \E k \in 1..Len(ai) :
                     IF m.error THEN ai' = removeAt(ai, k)
                     ELSE /\ m.index = ai[k].i
                          /\ m.index < ai[k].n
                          /\ ai' = IF m.index + 1 < ai[k].n
                                   THEN [ai EXCEPT ![k].i = m.index + 1]
                                   ELSE removeAt(ai, k)
        /\ errorHandled => panel' = panel /\ accepted' = accepted ]_vars

\* the call for conflict 1 has thrown after the resolution of conflict 0 was
\* applied in the webview
C28_Witness ==
    /\ Len(conflicts) >= 2
    /\ Len(accepted) >= 2
    /\ accepted[1] = "ai"
    /\ accepted[2] # "ai"
    /\ ai = <<>>
    /\ Len(inbox) > 0
    /\ inbox[1].command = "aiResponse"
    /\ inbox[1].error

----------------------------------------------------------------------------
(* C29: in part_003, every accept icon of the rendered view targets a      *)
(* line of the HEAD code of the conflict, that is a line strictly between  *)
(* the "<<<<<<< HEAD" line and the "|||||||" line, and the text it carries *)
(* is a code line of the original side (between "|||||||" and "=======")   *)
(* or of the incoming side (between "=======" and ">>>>>>>"), never the    *)
(* label of a marker.                                                      *)

\* 0-based index of the first line at or after from that starts with marker,
\* -1 when none
firstLineWith(lines, marker, from) ==
    LET hits == { i \in from..(Len(lines) - 1) : startsWith(lines[i + 1], marker) }
    IN  IF hits = {} THEN -1 ELSE minOf(hits)

C29_IconsTargetHeadCode ==
    phase = "open" =>
        LET lines == split(opened)
            s == firstLineWith(lines, LT, 0)
            b == firstLineWith(lines, BAR, s + 1)
            m == firstLineWith(lines, EQ, b + 1)
            e == firstLineWith(lines, GT, m + 1)
        IN  \A k \in 1..Len(panel) :
               /\ panel[k].line \in (s + 1)..(b - 1)
               /\ \/ /\ panel[k].side = "original"
                     /\ \E i \in (b + 1)..(m - 1) : lines[i + 1] = panel[k].text
                  \/ /\ panel[k].side = "incoming"
                     /\ \E i \in (m + 1)..(e - 1) : lines[i + 1] = panel[k].text

====
